---------------------------- MODULE Spec2Model ----------------------------
(* bugs2json.py: a list of issue URLs is read, de-duplicated and handed to  *)
(* a thread pool; every URL is dispatched on its host to one of four        *)
(* extractors; the records are collected as the workers complete, sorted    *)
(* by lower-cased id and written.  Strings are sequences of one-character   *)
(* strings, so that case folding, substring tests, splitting and ordering   *)
(* are computed and not assumed.                                             *)
EXTENDS Integers, Sequences, FiniteSets, TLC

(***************************************************************************)
(* Strings                                                                 *)
(***************************************************************************)

\* The characters of the model in ASCII order (str comparison is by code point).
Ascii ==
  << " ", "#", "&", "'", "-", ".", "/",
     "0", "1", "2", "3", "4", "5", "6", "7", "8", "9", ":", "=", "?", "@",
     "A", "B", "C", "D", "E", "F", "G", "H", "I", "J", "K", "L", "M",
     "N", "O", "P", "Q", "R", "S", "T", "U", "V", "W", "X", "Y", "Z",
     "[", "]", "_",
     "a", "b", "c", "d", "e", "f", "g", "h", "i", "j", "k", "l", "m",
     "n", "o", "p", "q", "r", "s", "t", "u", "v", "w", "x", "y", "z" >>

Range(s) == { s[i] : i \in DOMAIN s }

\* "A" .. "Z" stand at 22 .. 47 of Ascii and "a" .. "z" 29 places behind them
UpperSet == { Ascii[i] : i \in 22 .. 47 }
LowerSet == { Ascii[i + 29] : i \in 22 .. 47 }
DigitSet == { "0", "1", "2", "3", "4", "5", "6", "7", "8", "9" }

\* ord(c)
Ord == [ c \in Range(Ascii) |-> CHOOSE i \in DOMAIN Ascii : Ascii[i] = c ]

\* c.lower() and c.upper() of one character
LowerChar == [ c \in Range(Ascii) |-> IF c \in UpperSet THEN Ascii[Ord[c] + 29] ELSE c ]
UpperChar == [ c \in Range(Ascii) |-> IF c \in LowerSet THEN Ascii[Ord[c] - 29] ELSE c ]

\* str.lower(), str.upper()
StrLower(s) == [ i \in DOMAIN s |-> LowerChar[s[i]] ]
StrUpper(s) == [ i \in DOMAIN s |-> UpperChar[s[i]] ]

IsAlphaChar(c) == c \in UpperSet \cup LowerSet
IsDigitChar(c) == c \in DigitSet

\* str.isalpha(), str.isupper(), str.islower()
StrIsAlpha(s) == s /= << >> /\ \A i \in DOMAIN s : IsAlphaChar(s[i])
StrIsUpper(s) ==
  /\ \E i \in DOMAIN s : IsAlphaChar(s[i])
  /\ \A i \in DOMAIN s : s[i] \notin LowerSet
StrIsLower(s) ==
  /\ \E i \in DOMAIN s : IsAlphaChar(s[i])
  /\ \A i \in DOMAIN s : s[i] \notin UpperSet

\* str.capitalize(): first character upper-cased, the rest lower-cased
StrCapitalize(s) ==
  [ i \in DOMAIN s |-> IF i = 1 THEN UpperChar[s[i]] ELSE LowerChar[s[i]] ]

\* t[0].upper() + t[1:]
UpperFirst(s) ==
  [ i \in DOMAIN s |-> IF i = 1 THEN UpperChar[s[i]] ELSE s[i] ]

\* a < b on strings: lexicographic by code point, a proper prefix is smaller
RECURSIVE StrLess(_, _)
StrLess(a, b) ==
  IF b = << >> THEN FALSE
  ELSE IF a = << >> THEN TRUE
  ELSE IF a[1] /= b[1] THEN Ord[a[1]] < Ord[b[1]]
  ELSE StrLess(Tail(a), Tail(b))

\* needle in hay
Contains(hay, needle) ==
  \E i \in 0 .. (Len(hay) - Len(needle)) :
    SubSeq(hay, i + 1, i + Len(needle)) = needle

StartsWith(s, p) == Len(p) <= Len(s) /\ SubSeq(s, 1, Len(p)) = p

\* s.strip(chars)
RECURSIVE LStrip(_, _)
LStrip(s, chars) ==
  IF s /= << >> /\ s[1] \in chars THEN LStrip(Tail(s), chars) ELSE s

RECURSIVE RStrip(_, _)
RStrip(s, chars) ==
  IF s /= << >> /\ s[Len(s)] \in chars
  THEN RStrip(SubSeq(s, 1, Len(s) - 1), chars) ELSE s

Strip(s, chars) == RStrip(LStrip(s, chars), chars)

\* s.split(sep) for a one-character sep: always at least one (maybe empty) part
RECURSIVE SplitOn(_, _)
SplitOn(s, seps) ==
  IF \E i \in DOMAIN s : s[i] \in seps
  THEN LET i == CHOOSE j \in DOMAIN s :
                  /\ s[j] \in seps
                  /\ \A k \in 1 .. (j - 1) : s[k] \notin seps
       IN  << SubSeq(s, 1, i - 1) >> \o SplitOn(SubSeq(s, i + 1, Len(s)), seps)
  ELSE << s >>

\* sep.join(parts)
RECURSIVE Join(_, _)
Join(parts, sep) ==
  IF parts = << >> THEN << >>
  ELSE IF Len(parts) = 1 THEN parts[1]
  ELSE parts[1] \o sep \o Join(Tail(parts), sep)

\* seen-set de-duplication keeping the first occurrence of each element
RECURSIVE DedupFirst(_, _)
DedupFirst(s, seen) ==
  IF s = << >> THEN << >>
  ELSE IF s[1] \in seen THEN DedupFirst(Tail(s), seen)
  ELSE << s[1] >> \o DedupFirst(Tail(s), seen \cup { s[1] })

\* a or b on strings: a unless it is empty
OrElse(a, b) == IF a /= << >> THEN a ELSE b

\* the concatenation of a sequence of sequences
RECURSIVE Flatten(_)
Flatten(ss) == IF ss = << >> THEN << >> ELSE ss[1] \o Flatten(Tail(ss))

(***************************************************************************)
(* Display-name humanizer                                                  *)
(***************************************************************************)

\* A README is a sequence of lines [kind, words], kind one of "heading",
\* "prose", "code"; the empty README is << >>.

\* _strip_code_blocks: fenced and indented code lines are removed
StripCodeBlocks(text) == SelectSeq(text, LAMBDA ln : ln.kind /= "code")

HeadingWords(text) ==
  Flatten([ i \in DOMAIN text |->
              IF text[i].kind = "heading" THEN text[i].words ELSE << >> ])

ProseWords(text) ==
  Flatten([ i \in DOMAIN text |->
              IF text[i].kind = "heading" THEN << >> ELSE text[i].words ])

\* pattern.finditer(s) with re.IGNORECASE and \b...\b: the words equal to the
\* token up to letter case, in text order
CasingMatches(words, token) ==
  SelectSeq(words, LAMBDA w : StrLower(w) = StrLower(token))

Occurrences(words, v) == Cardinality({ i \in DOMAIN words : words[i] = v })

is_allcaps(s) ==
  /\ \E i \in DOMAIN s : IsAlphaChar(s[i])
  /\ \A i \in DOMAIN s : IsAlphaChar(s[i]) => s[i] \in UpperSet

is_titlecase(s) ==
  LET letters == SelectSeq(s, IsAlphaChar)
  IN  /\ letters /= << >>
      /\ letters[1] \in UpperSet
      /\ \A i \in 2 .. Len(letters) : letters[i] \notin UpperSet

is_mixedcase(s) ==
  /\ Cardinality({ i \in DOMAIN s : s[i] \in UpperSet }) >= 2
  /\ ~ is_allcaps(s)

rank(variant) ==
  IF is_mixedcase(variant) THEN 3
  ELSE IF is_titlecase(variant) THEN 2
  ELSE IF is_allcaps(variant) THEN 1
  ELSE 0

\* the ranking of _most_common_casing: rank first, then count
BetterCasing(a, b, prose, heads) ==
  \/ rank(a) > rank(b)
  \/ /\ rank(a) = rank(b)
     /\ Occurrences(prose, a) + 3 * Occurrences(heads, a)
          > Occurrences(prose, b) + 3 * Occurrences(heads, b)

\* max(counts.items(), key=...): the first of the best variants in the order
\* the dict got them (prose matches, then heading matches)
BestCasing(variants, prose, heads) ==
  variants[CHOOSE i \in DOMAIN variants :
             /\ \A j \in DOMAIN variants :
                  ~ BetterCasing(variants[j], variants[i], prose, heads)
             /\ \A j \in 1 .. (i - 1) :
                  BetterCasing(variants[i], variants[j], prose, heads)]

\* _most_common_casing once the matches are collected
PickCasing(variants, prose, heads, token, desired) ==
  IF variants = << >> THEN << >>
  ELSE IF StrIsAlpha(token) /\ Len(token) <= 4 /\ desired \in Range(variants)
  THEN desired
  ELSE BestCasing(variants, prose, heads)

CasingFromMatches(prose, heads, token) ==
  PickCasing(DedupFirst(prose \o heads, {}), prose, heads, token,
             StrCapitalize(StrLower(token)))

CasingFromText(hay, token) ==
  CasingFromMatches(CasingMatches(ProseWords(hay), token),
                    CasingMatches(HeadingWords(hay), token), token)

\* _most_common_casing: << >> stands for None
MostCommonCasing(text, token) ==
  IF text = << >> THEN << >> ELSE CasingFromText(StripCodeBlocks(text), token)

\* re.split(r"(\d+)", ct) without its empty parts: the maximal digit and
\* non-digit runs of ct, in order
RECURSIVE DigitRuns(_)
DigitRuns(ct) ==
  IF ct = << >> THEN << >>
  ELSE LET d == IsDigitChar(ct[1])
           n == CHOOSE k \in DOMAIN ct :
                  /\ \A i \in 1 .. k : IsDigitChar(ct[i]) = d
                  /\ k < Len(ct) => IsDigitChar(ct[k + 1]) /= d
       IN  << SubSeq(ct, 1, n) >> \o DigitRuns(SubSeq(ct, n + 1, Len(ct)))

\* re.match(r"^([a-z]+)(\d+)$", ct): the length of group 1, or 0 for no match
LettersDigitsMatch(ct) ==
  IF \E k \in 1 .. (Len(ct) - 1) :
       /\ \A i \in 1 .. k : ct[i] \in LowerSet
       /\ \A i \in (k + 1) .. Len(ct) : IsDigitChar(ct[i])
  THEN CHOOSE k \in 1 .. (Len(ct) - 1) :
       /\ \A i \in 1 .. k : ct[i] \in LowerSet
       /\ \A i \in (k + 1) .. Len(ct) : IsDigitChar(ct[i])
  ELSE 0

\* "".join(p.capitalize() if p.isalpha() else p for p in parts if p)
CapitalizeAlphaParts(parts) ==
  Flatten([ i \in DOMAIN parts |->
              IF StrIsAlpha(parts[i]) THEN StrCapitalize(parts[i]) ELSE parts[i] ])

\* the digit branch of the fallback, k the length matched by letters+digits
DigitFallback(ct, k) ==
  IF k > 0 /\ k <= 4
  THEN StrUpper(SubSeq(ct, 1, k)) \o SubSeq(ct, k + 1, Len(ct))
  ELSE CapitalizeAlphaParts(DigitRuns(ct))

\* the structural fallback of one token (no casing observed in the README)
StructuralFallback(ct) ==
  IF \E i \in DOMAIN ct : IsDigitChar(ct[i])
  THEN DigitFallback(ct, LettersDigitsMatch(ct))
  ELSE IF Len(ct) <= 4
       THEN (IF StrIsUpper(ct) THEN ct ELSE UpperFirst(ct))
       ELSE UpperFirst(ct)

\* fixed_tokens: a token that came out all-lowercase gets its first letter capitalized
FixLower(t) == IF StrIsLower(t) THEN UpperFirst(t) ELSE t

\* one token of humanize_repo_display_name: the casing observed in the README,
\* else the structural fallback; then the all-lowercase fix
HumanizeToken(readme, ct) ==
  FixLower(OrElse(MostCommonCasing(readme, ct), StructuralFallback(ct)))

\* [ct for ct in re.split(r"[-_]", repo_canonical) if ct]
RepoTokens(repo_canonical) ==
  SelectSeq(SplitOn(repo_canonical, { "-", "_" }), LAMBDA t : t /= << >>)

\* humanize_repo_display_name, given the README text _fetch_readme_text returned
HumanizeWith(readme, repo_canonical) ==
  Join([ i \in DOMAIN RepoTokens(repo_canonical) |->
           HumanizeToken(readme, RepoTokens(repo_canonical)[i]) ], << "-" >>)

(***************************************************************************)
(* URLs (urllib.parse.urlparse, os.path.basename)                          *)
(***************************************************************************)

\* the index of the first element of s that is in chars, or Len(s) + 1
FirstIn(s, chars) ==
  IF \E i \in DOMAIN s : s[i] \in chars
  THEN CHOOSE i \in DOMAIN s :
         s[i] \in chars /\ \A k \in 1 .. (i - 1) : s[k] \notin chars
  ELSE Len(s) + 1

\* s up to its first element in chars, and s behind that element
Before(s, chars) == SubSeq(s, 1, FirstIn(s, chars) - 1)
Behind(s, chars) == SubSeq(s, FirstIn(s, chars) + 1, Len(s))

Last(ss) == ss[Len(ss)]

\* what follows url[i] when it is the ":" that ends a scheme, else the url
AfterColon(url, i) ==
  IF /\ i > 1 /\ i <= Len(url)
     /\ IsAlphaChar(url[1])
     /\ \A k \in 1 .. (i - 1) :
          url[k] \in UpperSet \cup LowerSet \cup DigitSet \cup { "+", "-", "." }
  THEN SubSeq(url, i + 1, Len(url))
  ELSE url

\* what follows "scheme:" (the whole string when it has no scheme)
AfterScheme(url) == AfterColon(url, FirstIn(url, { ":" }))

\* the network location of what follows the scheme: between "//" and the
\* first "/", "?" or "#"
NetlocOf(rest) ==
  IF StartsWith(rest, << "/", "/" >>)
  THEN Before(SubSeq(rest, 3, Len(rest)), { "/", "?", "#" })
  ELSE << >>

\* the path of what follows the scheme: behind the network location, up to
\* the first "?" or "#"
PathOf(rest) ==
  Before(IF StartsWith(rest, << "/", "/" >>)
         THEN SubSeq(rest, 2 + Len(NetlocOf(rest)) + 1, Len(rest))
         ELSE rest,
         { "?", "#" })

\* urlparse(url).netloc
Netloc(url) == NetlocOf(AfterScheme(url))

\* urlparse(url).path
UrlPath(url) == PathOf(AfterScheme(url))

\* urlparse(url).query
UrlQuery(url) == Behind(Before(url, { "#" }), { "?" })

\* p is a name=value pair with a non-blank value
IsParam(p, name) == StartsWith(p, name \o << "=" >>) /\ Len(p) > Len(name) + 1

FirstParam(pairs, name) ==
  IF \E i \in DOMAIN pairs : IsParam(pairs[i], name)
  THEN Behind(pairs[CHOOSE j \in DOMAIN pairs :
                      /\ IsParam(pairs[j], name)
                      /\ \A k \in 1 .. (j - 1) : ~ IsParam(pairs[k], name)],
              { "=" })
  ELSE << >>

\* parse_qs(query).get(name, [""])[0]: the first non-blank value of the parameter
QueryParam(query, name) == FirstParam(SplitOn(query, { "&" }), name)

\* os.path.basename(url): what follows the last "/"
Basename(url) == Last(SplitOn(url, { "/" }))

\* urlparse(url).path.strip("/").split("/")
PathSegments(url) == SplitOn(Strip(UrlPath(url), { "/" }), { "/" })

(***************************************************************************)
(* Date normalizer                                                         *)
(***************************************************************************)

\* datetime.fromisoformat(s).date().isoformat() on a stripped string: an ISO
\* calendar date, alone or followed by "T" and a time, gives its date part
ParseIso(s) ==
  IF /\ Len(s) >= 10
     /\ \A i \in { 1, 2, 3, 4, 6, 7, 9, 10 } : IsDigitChar(s[i])
     /\ s[5] = "-" /\ s[8] = "-"
     /\ (Len(s) = 10 \/ s[11] = "T")
  THEN SubSeq(s, 1, 10)
  ELSE << >>

\* try_parse_date on the timestamps the model's remote serves.  The strptime
\* formats all need a month or weekday name, so a string that is no ISO
\* timestamp and holds no such name normalizes to "".
try_parse_date(raw) == ParseIso(Strip(raw, { " " }))

\* iso_date: the raw string is kept when it does not parse
iso_date(raw) == OrElse(try_parse_date(raw), raw)

\* min() of a non-empty list of strings
StrMin(ss) ==
  ss[CHOOSE i \in DOMAIN ss : \A j \in DOMAIN ss : ~ StrLess(ss[j], ss[i])]

(***************************************************************************)
(* The remote: what each HTTP GET answers.  It is fixed for a run, so a     *)
(* request repeated by another worker gets the same answer.                *)
(***************************************************************************)

\* Repositories and projects that exist, with the letter case of their names.
Registry ==
  { [ owner |-> << "s", "c", "i" >>, name |-> << "H", "D", "F", "5" >> ],
    [ owner |-> << "k", "d", "e" >>, name |-> << "K", "C", "a", "l", "c" >> ] }

\* f"{owner.lower()}/{repo.lower()}"
RepoKey(owner, repo) == StrLower(owner) \o << "/" >> \o StrLower(repo)

\* the registered name of owner/repo (the remote ignores letter case), or << >>
RegisteredName(owner, repo) ==
  IF \E r \in Registry : RepoKey(r.owner, r.name) = RepoKey(owner, repo)
  THEN (CHOOSE r \in Registry : RepoKey(r.owner, r.name) = RepoKey(owner, repo)).name
  ELSE << >>

\* The remote is a record of the modes of its services:
\*   api    (api.github.com): "ok", "limited" (an error document), "down" (the GET raises)
\*   web    (github.com, raw.githubusercontent.com): "ok", "bare" (pages without
\*          metadata), "down"
\*   gitlab (the GitLab API): "ok", "nonobject" (a JSON array), "down"
\*   sites  (mail-archive.com, qcad.org): "ok", "down"
\*   readme: "text" (registered repositories have a README), "none"
\*   stamps: the values of the datetime attributes of a rendered issue page
\*   phrase: the date find_any_date_text recovers from the visible text of a
\*           rendered issue page, << >> when it recovers none

\* str(e) of the requests.exceptions.RequestException a GET raises
TransportFault == << "R", "e", "a", "d", " ", "t", "i", "m", "e", "d", " ", "o", "u", "t" >>

IssueTitle(number) == << "b", "u", "g", " " >> \o number
CreatedAt == << "2", "0", "2", "1", "-", "0", "3", "-", "0", "5", "T", "1", "0", ":", "0", "0", ":", "0", "0", "Z" >>
CommentAt == << "2", "0", "2", "1", "-", "0", "4", "-", "0", "1", "T", "0", "8", ":", "3", "0", ":", "0", "0", "Z" >>
GitlabCreatedAt == << "2", "0", "2", "2", "-", "0", "1", "-", "0", "2", "T", "0", "3", ":", "0", "4", ":", "0", "5", "Z" >>
SiteDate == << "2", "0", "2", "0", "-", "0", "2", "-", "0", "3" >>
MidDot == "·"
SuffixGitHub == << " ", MidDot, " ", "G", "i", "t", "H", "u", "b" >>

\* GET https://api.github.com/repos/{owner}/{repo}/issues/{number}, then r.json():
\* a document with title and created_at, or one with an error "message";
\* name is the registered name of owner/repo
ApiIssue(remote, name, number) ==
  IF remote.api = "ok" /\ name /= << >>
  THEN [ message |-> FALSE, title |-> IssueTitle(number), created_at |-> CreatedAt ]
  ELSE [ message |-> TRUE, title |-> << >>, created_at |-> << >> ]

\* a page without repository metadata, and no page at all (issue_soup is None)
\* the markup regex \d{4}-\d{2}-\d{2}T\d{2}:\d{2}:\d{2}(Z|[+-]\d{2}:\d{2}) on an
\* attribute value (fractions of a second are not modelled)
IsTimestamp(s) ==
  /\ Len(s) \in { 20, 25 }
  /\ \A i \in { 1, 2, 3, 4, 6, 7, 9, 10, 12, 13, 15, 16, 18, 19 } : IsDigitChar(s[i])
  /\ s[5] = "-" /\ s[8] = "-" /\ s[11] = "T" /\ s[14] = ":" /\ s[17] = ":"
  /\ IF Len(s) = 20 THEN s[20] = "Z"
     ELSE /\ s[20] \in { "+", "-" } /\ s[23] = ":"
          /\ \A i \in { 21, 22, 24, 25 } : IsDigitChar(s[i])

BareSoup == [ parsed |-> TRUE, nwo |-> << >>, og |-> << >>, anchor |-> << >> ]
NoSoup == [ parsed |-> FALSE, nwo |-> << >>, og |-> << >>, anchor |-> << >> ]

\* GET of the issue URL: the final path after redirects, the three title
\* candidates, the timestamp candidates and the repository metadata of the page
WebIssuePage(remote, segments, owner, name, number) ==
  IF remote.web = "ok" /\ name /= << >>
  THEN [ final |-> segments,
         js |-> IssueTitle(number),
         ogtitle |-> IssueTitle(number) \o << " ", MidDot, " " >>
                       \o owner \o << "/" >> \o name,
         doc |-> IssueTitle(number) \o SuffixGitHub,
         datetimes |-> remote.stamps,
         markup |-> SelectSeq(remote.stamps, IsTimestamp),
         textdate |-> remote.phrase,
         soup |-> [ parsed |-> TRUE,
                    nwo |-> owner \o << "/" >> \o name,
                    og |-> IssueTitle(number) \o << " ", MidDot, " " >>
                             \o owner \o << "/" >> \o name,
                    anchor |-> name ] ]
  ELSE [ final |-> segments,
         js |-> << >>, ogtitle |-> << >>,
         doc |-> IF remote.web = "ok"
                 THEN << "P", "a", "g", "e", " ", "n", "o", "t", " ", "f", "o", "u", "n", "d" >>
                        \o SuffixGitHub
                 ELSE << "G", "i", "t", "H", "u", "b" >>,
         datetimes |-> << >>, markup |-> << >>, textdate |-> << >>,
         soup |-> BareSoup ]

\* GET https://github.com/{owner}/{repo}: the repository page's metadata
WebRepoPage(remote, owner, name) ==
  IF remote.web = "ok" /\ name /= << >>
  THEN [ parsed |-> TRUE,
         nwo |-> owner \o << "/" >> \o name,
         og |-> owner \o << "/" >> \o name,
         anchor |-> name ]
  ELSE BareSoup

\* The README of a registered repository: its name styled in a heading and in
\* the prose, lower-cased in the prose and in a code block.
ReadmeOf(name) ==
  << [ kind |-> "heading", words |-> << name >> ],
     [ kind |-> "prose", words |-> << StrLower(name), name, StrLower(name) >> ],
     [ kind |-> "code", words |-> << StrLower(name), StrLower(name) >> ] >>

(***************************************************************************)
(* Records, exceptions and the four extractors                             *)
(***************************************************************************)

\* lead_from_filename(args.txt_file): one attribution for the whole run
Lead == << "J", "o", " ", "D", "o" >>

Record(id, url, date, desc) ==
  [ id |-> id, url |-> url, lead |-> Lead, date |-> date, desc |-> desc ]

Exc(type, msg) == [ type |-> type, msg |-> msg ]

NoExc == Exc("", << >>)
NoRecord == [ id |-> << >>, url |-> << >>, lead |-> << >>, date |-> << >>, desc |-> << >> ]

Issues == << "i", "s", "s", "u", "e", "s" >>

\* the non-empty strings of a sequence, and the first of them (or << >>)
NonEmpty(ss) == SelectSeq(ss, LAMBDA d : d /= << >>)
FirstNonEmpty(ss) == IF NonEmpty(ss) = << >> THEN << >> ELSE NonEmpty(ss)[1]

\* What an extractor's own requests come to: the exception raised (NoExc for
\* none), the requests issued, and the title, date, issue_soup, repository
\* name and id recovered.
Fetched(n, title, created, soup, name, id) ==
  [ exc |-> NoExc, nreq |-> n, title |-> title, created |-> created,
    soup |-> soup, name |-> name, id |-> id ]

Failed(n, e) ==
  [ exc |-> e, nreq |-> n, title |-> << >>, created |-> << >>,
    soup |-> NoSoup, name |-> << >>, id |-> << >> ]

\* the n-th request of the extractor raises requests.exceptions.RequestException
Fault(n) == Failed(n, Exc("RequestException", TransportFault))

\* fetch_github: the shape test of the path, before any request
GithubMalformed(seg) == Len(seg) < 4 \/ seg[3] /= Issues

\* return "" if t in {"GitHub", "Page not found", "Sign in to GitHub"} else t
Blank(c) ==
  IF c \in { << "G", "i", "t", "H", "u", "b" >>,
             << "P", "a", "g", "e", " ", "n", "o", "t", " ", "f", "o", "u", "n", "d" >>,
             << "S", "i", "g", "n", " ", "i", "n", " ", "t", "o", " ",
                "G", "i", "t", "H", "u", "b" >> }
  THEN << >> ELSE c

\* clean_title
clean_title(t) == Blank(Strip(Before(t, { MidDot }), { " " }))

IsoDates(raws) == NonEmpty([ i \in DOMAIN raws |-> iso_date(raws[i]) ])

\* collect_all_datetimes_from_html: datetime attributes, ISO timestamps of the
\* markup and the date phrase of the text, each kept when non-empty
collect_all_datetimes_from_html(page) ==
  IsoDates(page.datetimes) \o IsoDates(page.markup) \o NonEmpty(<< page.textdate >>)

\* fetch_github: what the API document gives
GithubFromApi(data) ==
  IF data.message
  THEN [ title |-> << >>, created |-> << >> ]
  ELSE [ title |-> Strip(data.title, { " " }), created |-> iso_date(data.created_at) ]

\* fetch_github: span.js-issue-title, then og:title, then <title>
HtmlTitle(page) ==
  FirstNonEmpty(<< clean_title(page.js), clean_title(page.ogtitle),
                   clean_title(page.doc) >>)

\* valid_issue_path
ValidIssuePath(redirected) == Len(redirected) >= 4 /\ redirected[3] = Issues

\* fetch_github: the earliest timestamp of the page, else the date known so
\* far, else the date phrase of the page text
DateFromPage(created, dates, textdate) ==
  OrElse(IF dates /= << >> THEN StrMin(dates) ELSE created, textdate)

\* fetch_github: the page fallback, taken when the API left the title or the
\* date empty
GithubFromPage(api, page, valid, repo) ==
  Fetched(2,
          IF valid THEN OrElse(api.title, HtmlTitle(page)) ELSE api.title,
          IF valid
          THEN DateFromPage(api.created, collect_all_datetimes_from_html(page),
                            page.textdate)
          ELSE api.created,
          page.soup, repo, << >>)

GithubOutcome(remote, api, page, repo) ==
  IF remote.api = "down" THEN Fault(1)
  ELSE IF api.title /= << >> /\ api.created /= << >>
  THEN Fetched(1, api.title, api.created, NoSoup, repo, << >>)
  ELSE IF remote.web = "down" THEN Fault(2)
  ELSE GithubFromPage(api, page, ValidIssuePath(page.final), repo)

\* fetch_github from the API request to the recovered title and date
GithubIssue(remote, seg) ==
  GithubOutcome(remote,
                GithubFromApi(ApiIssue(remote, RegisteredName(seg[1], seg[2]), seg[4])),
                WebIssuePage(remote, seg, seg[1], RegisteredName(seg[1], seg[2]), seg[4]),
                seg[2])

NameChars == UpperSet \cup LowerSet \cup DigitSet \cup { "_", ".", "-" }

\* re.search(r"([A-Za-z0-9_.-]+)/([A-Za-z0-9_.-]+)\s*$", c): group 2
RightOf(parts) ==
  IF /\ Len(parts) >= 2
     /\ Last(parts) /= << >> /\ Range(Last(parts)) \subseteq NameChars
     /\ parts[Len(parts) - 1] /= << >> /\ Last(parts[Len(parts) - 1]) \in NameChars
  THEN Last(parts)
  ELSE << >>

\* the repository name one page yields (what follows the "/" of meta nwo, then
\* og:title, then the repository anchor), or << >>
NameFromSoup(soup) ==
  FirstNonEmpty(<< Behind(Strip(soup.nwo, { " " }), { "/" }),
                   RightOf(SplitOn(RStrip(soup.og, { " " }), { "/" })),
                   Strip(soup.anchor, { " " }) >>)

\* the first name the pages yield, soups being the issue page when fetch_github
\* parsed one and the repository page when its GET did not raise
NameFromSoups(soups) == FirstNonEmpty([ i \in DOMAIN soups |-> NameFromSoup(soups[i]) ])

\* canonical_github_repo_name past the cache check: the repository API, then
\* the issue page and the repository page, then the URL's own path segment
CanonicalFetch(remote, owner, repo, issue_soup) ==
  IF remote.api = "ok" /\ RegisteredName(owner, repo) /= << >>
  THEN [ value |-> Strip(RegisteredName(owner, repo), { " " }), nreq |-> 1 ]
  ELSE [ value |->
           OrElse(NameFromSoups(
                    (IF issue_soup.parsed THEN << issue_soup >> ELSE << >>)
                    \o (IF remote.web /= "down"
                        THEN << WebRepoPage(remote, owner, RegisteredName(owner, repo)) >>
                        ELSE << >>)),
                  repo),
         nreq |-> 2 ]

\* _fetch_readme_text past the cache check: the README API, then the five
\* conventional file names, then ""
ReadmeFetch(remote, owner, repo) ==
  IF remote.readme = "none" \/ RegisteredName(owner, repo) = << >>
  THEN [ text |-> << >>, nreq |-> 6 ]
  ELSE IF remote.api = "ok"
  THEN [ text |-> ReadmeOf(RegisteredName(owner, repo)), nreq |-> 1 ]
  ELSE IF remote.web /= "down"
  THEN [ text |-> ReadmeOf(RegisteredName(owner, repo)), nreq |-> 2 ]
  ELSE [ text |-> << >>, nreq |-> 6 ]

\* what parse_gitlab_path raises (NoExc for none) and returns
GitlabParsed(e, group, project, number) ==
  [ exc |-> e, group |-> group, project |-> project, number |-> number ]

GitlabRaises(e) == GitlabParsed(e, << >>, << >>, << >>)

\* parse_gitlab_path once i = parts.index("issues") and proj_parts are known
ParsedFrom(parts, i, proj_parts) ==
  IF i > Len(parts)
  THEN GitlabRaises(Exc("ValueError",
         << "N", "o", " ", "'", "i", "s", "s", "u", "e", "s", "'", " ", "i", "n", " ",
            "G", "i", "t", "L", "a", "b", " ", "p", "a", "t", "h" >>))
  ELSE IF i + 1 > Len(parts)
  THEN GitlabRaises(Exc("IndexError",
         << "l", "i", "s", "t", " ", "i", "n", "d", "e", "x", " ", "o", "u", "t", " ",
            "o", "f", " ", "r", "a", "n", "g", "e" >>))
  ELSE IF Len(proj_parts) < 2
  THEN GitlabRaises(Exc("ValueError",
         << "U", "n", "e", "x", "p", "e", "c", "t", "e", "d", " ", "G", "i", "t", "L",
            "a", "b", " ", "p", "r", "o", "j", "e", "c", "t", " ", "p", "a", "t", "h" >>))
  ELSE GitlabParsed(NoExc, proj_parts[1], Join(Tail(proj_parts), << "/" >>), parts[i + 1])

\* parse_gitlab_path
parse_gitlab_path(parts) ==
  ParsedFrom(parts, FirstIn(parts, { Issues }),
             SelectSeq(SubSeq(parts, 1, FirstIn(parts, { Issues }) - 1),
                       LAMBDA p : p /= << "-" >>))

GitlabOutcome(remote, number, last, name) ==
  IF remote.gitlab = "down" THEN Fault(1)
  ELSE IF remote.gitlab = "nonobject"
  THEN Failed(1, Exc("AttributeError",
         << "'", "l", "i", "s", "t", "'", " ", "o", "b", "j", "e", "c", "t", " ",
            "h", "a", "s", " ", "n", "o", " ", "a", "t", "t", "r", "i", "b", "u",
            "t", "e", " ", "'", "g", "e", "t", "'" >>))
  ELSE IF name /= << >>
  THEN Fetched(2, IssueTitle(number), iso_date(GitlabCreatedAt), NoSoup,
               Strip(name, { " " }), << >>)
  ELSE Fetched(2, << >>, << >>, NoSoup, last, << >>)

\* fetch_gitlab past the path parse: the issue API, then the project API
GitlabIssue(remote, group, project, number) ==
  GitlabOutcome(remote, number, Basename(project),
                RegisteredName(group, Basename(project)))

\* capitalize_project
capitalize_project(name) ==
  IF \E i \in DOMAIN name : name[i] \in UpperSet THEN name
  ELSE IF "-" \in Range(name) \/ "_" \in Range(name)
  THEN Join([ i \in DOMAIN SplitOn(name, { "-", "_" }) |->
                StrCapitalize(SplitOn(name, { "-", "_" })[i]) ], << "-" >>)
  ELSE StrCapitalize(name)

\* fetch_mailarchive.  The archive serves, for a message whose name starts with
\* "m", the subject "[<list>] [Bug 42] New: crash on load" of its list, and
\* for any other "Re: hello".
fetch_mailarchive(remote, url, seg) ==
  IF remote.sites = "down" THEN Fault(1)
  ELSE IF StartsWith(Last(seg), << "m" >>)
  THEN Fetched(1, << "c", "r", "a", "s", "h", " ", "o", "n", " ", "l", "o", "a", "d" >>,
               iso_date(SiteDate), NoSoup, << >>,
               capitalize_project(Strip(seg[1], { " " })) \o << " ", "#", "4", "2" >>)
  ELSE Fetched(1, << "R", "e", ":", " ", "h", "e", "l", "l", "o" >>,
               iso_date(SiteDate), NoSoup, << >>,
               << "M", "a", "i", "l", "A", "r", "c", "h", "i", "v", "e", " " >>
                 \o Basename(url))

\* fetch_qcad
fetch_qcad(remote, url) ==
  IF remote.sites = "down" THEN Fault(1)
  ELSE Fetched(1, << "t", "o", "p", "i", "c" >>, iso_date(SiteDate), NoSoup, << >>,
               << "Q", "C", "A", "D", " ", "#" >>
                 \o OrElse(QueryParam(UrlQuery(url), << "t" >>), Basename(url)))

(***************************************************************************)
(* Dispatcher                                                              *)
(***************************************************************************)

\* process_link: host = urlparse(url).netloc.lower()
HostOf(url) == StrLower(Netloc(url))

\* variant of Family in which the gitlab test stands in front of the github test
FamilyGitlabFirst(host) ==
  IF \/ Contains(host, << "g", "i", "t", "l", "a", "b" >>)
     \/ Contains(host, << "i", "n", "v", "e", "n", "t", ".", "k", "d", "e", ".",
                          "o", "r", "g" >>)
  THEN "gitlab"
  ELSE IF Contains(host, << "g", "i", "t", "h", "u", "b", ".", "c", "o", "m" >>)
  THEN "github"
  ELSE IF Contains(host, << "m", "a", "i", "l", "-", "a", "r", "c", "h", "i", "v", "e",
                            ".", "c", "o", "m" >>)
  THEN "mail"
  ELSE IF Contains(host, << "q", "c", "a", "d", ".", "o", "r", "g" >>)
  THEN "qcad"
  ELSE "none"

\* process_link: the chain of substring tests on the host, first match wins
Family(host) ==
  IF Contains(host, << "g", "i", "t", "h", "u", "b", ".", "c", "o", "m" >>)
  THEN "github"
  ELSE IF \/ Contains(host, << "g", "i", "t", "l", "a", "b" >>)
          \/ Contains(host, << "i", "n", "v", "e", "n", "t", ".", "k", "d", "e", ".",
                               "o", "r", "g" >>)
  THEN "gitlab"
  ELSE IF Contains(host, << "m", "a", "i", "l", "-", "a", "r", "c", "h", "i", "v", "e",
                            ".", "c", "o", "m" >>)
  THEN "mail"
  ELSE IF Contains(host, << "q", "c", "a", "d", ".", "o", "r", "g" >>)
  THEN "qcad"
  ELSE "none"

\* The locals of process_link and of the extractor it calls: the extractor
\* chosen, the path segments, owner/repo/number (group/project/number on
\* GitLab), then the title, date and issue_soup recovered, the repository
\* name humanize_repo_display_name is called with, and the README text.
Locals(fam, seg, owner, repo, number) ==
  [ fam |-> fam, seg |-> seg, owner |-> owner, repo |-> repo, number |-> number,
    title |-> << >>, created |-> << >>, soup |-> NoSoup, canonical |-> << >>,
    readme |-> << >> ]

NoLocals == Locals("", << >>, << >>, << >>, << >>)

\* What process_link does before the extractor's first request: the exception
\* it raises (NoExc for none) and the locals it goes on with.
Dispatched(e, l) == [ exc |-> e, loc |-> l ]

DispatchGithub(url, seg) ==
  IF GithubMalformed(seg)
  THEN Dispatched(Exc("ValueError",
         << "U", "n", "r", "e", "c", "o", "g", "n", "i", "z", "e", "d", " ",
            "G", "i", "t", "H", "u", "b", " ", "i", "s", "s", "u", "e", " ",
            "U", "R", "L", ":", " " >> \o url),
         Locals("github", seg, << >>, << >>, << >>))
  ELSE Dispatched(NoExc, Locals("github", seg, seg[1], seg[2], seg[4]))

DispatchGitlab(seg, p) ==
  Dispatched(p.exc, Locals("gitlab", seg, p.group, p.project, p.number))

DispatchOn(fam, host, url, seg) ==
  IF fam = "github" THEN DispatchGithub(url, seg)
  ELSE IF fam = "gitlab" THEN DispatchGitlab(seg, parse_gitlab_path(seg))
  ELSE IF fam \in { "mail", "qcad" }
  THEN Dispatched(NoExc, Locals(fam, seg, << >>, << >>, << >>))
  ELSE Dispatched(Exc("ValueError",
         << "U", "n", "s", "u", "p", "p", "o", "r", "t", "e", "d", " ",
            "h", "o", "s", "t", ":", " " >> \o host), NoLocals)

\* process_link up to the extractor's first request
Dispatch(url) == DispatchOn(Family(HostOf(url)), HostOf(url), url, PathSegments(url))

\* the extractor's own requests
Extract(remote, url, l) ==
  IF l.fam = "github" THEN GithubIssue(remote, l.seg)
  ELSE IF l.fam = "gitlab" THEN GitlabIssue(remote, l.owner, l.repo, l.number)
  ELSE IF l.fam = "mail" THEN fetch_mailarchive(remote, url, l.seg)
  ELSE fetch_qcad(remote, url)

\* process_link: except requests.exceptions.RequestException as e:
\*                   raise RuntimeError("%s: %s" % (url, e))
process_link_except(url, e) ==
  IF e.type = "RequestException"
  THEN Exc("RuntimeError", url \o << ":", " " >> \o e.msg)
  ELSE e

(***************************************************************************)
(* Input list and output order                                             *)
(***************************************************************************)

\* variant of read_url_list that keeps every occurrence of a line
read_url_list_all(lines) ==
  SelectSeq([ i \in DOMAIN lines |-> Strip(lines[i], { " " }) ],
            LAMBDA ln : ln /= << >> /\ ln[1] /= "#")

\* read_url_list: lines are stripped, blank lines and "#" lines dropped, and
\* each remaining line kept at its first occurrence
read_url_list(lines) ==
  DedupFirst(SelectSeq([ i \in DOMAIN lines |-> Strip(lines[i], { " " }) ],
                       LAMBDA ln : ln /= << >> /\ ln[1] /= "#"),
             {})

\* variant of SortKey that compares the ids as they are written
SortKeyCased(r) == r.id

\* key=lambda x: x["id"].lower()
SortKey(r) == StrLower(r.id)

InsertAt(sorted, k, r) ==
  SubSeq(sorted, 1, k) \o << r >> \o SubSeq(sorted, k + 1, Len(sorted))

\* one insertion of list.sort's stable order: r goes behind every element whose
\* key is not greater than its own
InsertByKey(sorted, r) ==
  InsertAt(sorted,
           Cardinality({ i \in DOMAIN sorted : ~ StrLess(SortKey(r), SortKey(sorted[i])) }),
           r)

\* results.sort(key=lambda x: x["id"].lower()): stable
RECURSIVE SortById(_)
SortById(rs) ==
  IF rs = << >> THEN << >>
  ELSE InsertByKey(SortById(SubSeq(rs, 1, Len(rs) - 1)), rs[Len(rs)])

(***************************************************************************)
(* State                                                                   *)
(***************************************************************************)

VARIABLES
  file,             \* the lines of the input .txt file
  workers,          \* --workers: the width of the thread pool
  remote,           \* the modes of the remote services, fixed for the run
  mpc,              \* main(): "start", "submit", "collect", "done", "exit1"
  urls,             \* main(): urls
  pc,               \* per submitted task: where process_link stands
  loc,              \* per task: the locals of process_link and its extractor
  outcome,          \* per task: the future's result or exception
  results,          \* main(): results
  warnings,         \* main(): warnings
  stderr,           \* the [WARN] lines printed, each with the task it reports
  written,          \* the documents written by write_json_for_input
  repo_name_cache,  \* _repo_name_cache
  repo_name_lock,   \* _repo_name_lock: the task holding it, or 0
  readme_cache,     \* _readme_cache
  readme_lock,      \* _readme_lock: the task holding it, or 0
  nreq,             \* per task: the HTTP requests it has issued
  fetched           \* per task: the cache keys it has run the remote fetch for

vars ==
  << file, workers, remote, mpc, urls, pc, loc, outcome, results, warnings,
     stderr, written, repo_name_cache, repo_name_lock, readme_cache, readme_lock,
     nreq, fetched >>

inputs == << file, workers, remote >>
mainVars == << mpc, urls, results, warnings, stderr, written >>
nameVars == << repo_name_cache, repo_name_lock >>
readmeVars == << readme_cache, readme_lock >>

Tasks == DOMAIN pc

NoOutcome == [ st |-> "pending", rec |-> NoRecord, exc |-> NoExc ]
Returned(r) == [ st |-> "returned", rec |-> r, exc |-> NoExc ]
RaisedOutcome(e) == [ st |-> "raised", rec |-> NoRecord, exc |-> e ]

\* a task is on a pool thread from its start to the completion of its future
Running(t) == pc[t] \notin { "queued", "done", "collected" }

\* d[key] = value
Put(d, key, value) ==
  [ k \in DOMAIN d \cup { key } |-> IF k = key THEN value ELSE d[k] ]

\* print("[WARN] %s" % e, file=sys.stderr)
WarnLine(e) == << "[", "W", "A", "R", "N", "]", " " >> \o e.msg

(***************************************************************************)
(* main()                                                                  *)
(***************************************************************************)

\* urls = read_url_list(args.txt_file); an empty list ends the run with exit 1
ReadUrlList ==
  /\ mpc = "start"
  /\ urls' = read_url_list(file)
  /\ mpc' = IF urls' = << >> THEN "exit1" ELSE "submit"
  /\ UNCHANGED << inputs, pc, loc, outcome, results, warnings, stderr, written,
                  nameVars, readmeVars, nreq, fetched >>

\* futs = {ex.submit(process_link, session, u, lead): u for u in urls}
Submit ==
  /\ mpc = "submit"
  /\ pc' = [ t \in DOMAIN urls |-> "queued" ]
  /\ loc' = [ t \in DOMAIN urls |-> NoLocals ]
  /\ outcome' = [ t \in DOMAIN urls |-> NoOutcome ]
  /\ nreq' = [ t \in DOMAIN urls |-> 0 ]
  /\ fetched' = [ t \in DOMAIN urls |-> {} ]
  /\ mpc' = "collect"
  /\ UNCHANGED << inputs, urls, results, warnings, stderr, written, nameVars, readmeVars >>

\* variant of Collect that prints the warning of a failed future and does not
\* count it
CollectUncounted(t) ==
  /\ mpc = "collect"
  /\ pc[t] = "done"
  /\ pc' = [ pc EXCEPT ![t] = "collected" ]
  /\ IF outcome[t].st = "returned"
     THEN /\ results' = Append(results, outcome[t].rec)
          /\ UNCHANGED stderr
     ELSE /\ stderr' = Append(stderr, [ task |-> t, text |-> WarnLine(outcome[t].exc) ])
          /\ UNCHANGED results
  /\ UNCHANGED << inputs, mpc, urls, loc, outcome, warnings, written, nameVars,
                  readmeVars, nreq, fetched >>

\* variant of Collect without the except clause: the exception of a failed
\* future leaves main()
CollectUncaught(t) ==
  /\ mpc = "collect"
  /\ pc[t] = "done"
  /\ pc' = [ pc EXCEPT ![t] = "collected" ]
  /\ IF outcome[t].st = "returned"
     THEN /\ results' = Append(results, outcome[t].rec)
          /\ UNCHANGED << mpc, stderr >>
     ELSE /\ mpc' = "exit1"
          /\ stderr' = Append(stderr, [ task |-> t, text |-> outcome[t].exc.msg ])
          /\ UNCHANGED results
  /\ UNCHANGED << inputs, urls, loc, outcome, warnings, written, nameVars,
                  readmeVars, nreq, fetched >>

\* for fut in as_completed(futs): one completed future is taken; its record is
\* appended, or its exception counted and printed
Collect(t) ==
  /\ mpc = "collect"
  /\ pc[t] = "done"
  /\ pc' = [ pc EXCEPT ![t] = "collected" ]
  /\ IF outcome[t].st = "returned"
     THEN /\ results' = Append(results, outcome[t].rec)
          /\ UNCHANGED << warnings, stderr >>
     ELSE /\ warnings' = warnings + 1
          /\ stderr' = Append(stderr, [ task |-> t, text |-> WarnLine(outcome[t].exc) ])
          /\ UNCHANGED results
  /\ UNCHANGED << inputs, mpc, urls, loc, outcome, written, nameVars, readmeVars,
                  nreq, fetched >>

\* the loop over as_completed is over: results.sort(...), write_json_for_input
SortAndWrite ==
  /\ mpc = "collect"
  /\ \A t \in Tasks : pc[t] = "collected"
  /\ results' = SortById(results)
  /\ written' = Append(written, results')
  /\ mpc' = "done"
  /\ UNCHANGED << inputs, urls, pc, loc, outcome, warnings, stderr, nameVars,
                  readmeVars, nreq, fetched >>

(***************************************************************************)
(* process_link on a pool thread                                           *)
(***************************************************************************)

\* the future of task t completes
Complete(t, o) ==
  /\ pc' = [ pc EXCEPT ![t] = "done" ]
  /\ outcome' = [ outcome EXCEPT ![t] = o ]

\* process_link raises d.exc, or goes on to the extractor's requests
Begin(t, d) ==
  /\ loc' = [ loc EXCEPT ![t] = d.loc ]
  /\ IF d.exc /= NoExc
     THEN Complete(t, RaisedOutcome(d.exc))
     ELSE /\ pc' = [ pc EXCEPT ![t] = "fetch" ]
          /\ UNCHANGED outcome

\* A free pool thread takes the oldest queued task and runs process_link up to
\* the extractor's first request: the host test and the path shape test.
Start(t) ==
  /\ pc[t] = "queued"
  /\ \A k \in Tasks : k < t => pc[k] /= "queued"
  /\ Cardinality({ k \in Tasks : Running(k) }) < workers
  /\ Begin(t, Dispatch(urls[t]))
  /\ UNCHANGED << inputs, mainVars, nameVars, readmeVars, nreq, fetched >>

\* the extractor's requests came to r
Fetching(t, r) ==
  /\ nreq' = [ nreq EXCEPT ![t] = @ + r.nreq ]
  /\ IF r.exc /= NoExc
     THEN /\ Complete(t, RaisedOutcome(process_link_except(urls[t], r.exc)))
          /\ UNCHANGED loc
     ELSE IF loc[t].fam \in { "mail", "qcad" }
     THEN /\ Complete(t, Returned(Record(r.id, urls[t], r.created, r.title)))
          /\ UNCHANGED loc
     ELSE /\ pc' = [ pc EXCEPT ![t] = IF loc[t].fam = "github" THEN "name_lock"
                                      ELSE "readme_lock" ]
          /\ loc' = [ loc EXCEPT ![t].title = r.title, ![t].created = r.created,
                                 ![t].soup = r.soup, ![t].canonical = r.name ]
          /\ UNCHANGED outcome

\* The extractor's own requests.  fetch_mailarchive and fetch_qcad return their
\* record; fetch_github goes on to canonical_github_repo_name and fetch_gitlab
\* to humanize_repo_display_name; a transport fault is re-raised by
\* process_link with the URL in front.
Fetch(t) ==
  /\ pc[t] = "fetch"
  /\ Fetching(t, Extract(remote, urls[t], loc[t]))
  /\ UNCHANGED << inputs, mainVars, nameVars, readmeVars, fetched >>

\* the key of task t in _repo_name_cache
NameKey(t) == RepoKey(loc[t].owner, loc[t].repo)

\* variant of NameAcquire that enters the block without waiting for the lock
NameAcquireUnguarded(t) ==
  /\ pc[t] \in { "name_lock", "name_put_lock" }
  /\ repo_name_lock' = t
  /\ pc' = [ pc EXCEPT ![t] = IF pc[t] = "name_lock" THEN "name_check" ELSE "name_put" ]
  /\ UNCHANGED << inputs, mainVars, loc, outcome, repo_name_cache, readmeVars,
                  nreq, fetched >>

\* canonical_github_repo_name: with _repo_name_lock: (either of its two blocks)
NameAcquire(t) ==
  /\ pc[t] \in { "name_lock", "name_put_lock" }
  /\ repo_name_lock = 0
  /\ repo_name_lock' = t
  /\ pc' = [ pc EXCEPT ![t] = IF pc[t] = "name_lock" THEN "name_check" ELSE "name_put" ]
  /\ UNCHANGED << inputs, mainVars, loc, outcome, repo_name_cache, readmeVars,
                  nreq, fetched >>

\* if key in _repo_name_cache: return _repo_name_cache[key]; the lock is released
NameCheck(t) ==
  /\ pc[t] = "name_check"
  /\ repo_name_lock' = 0
  /\ IF NameKey(t) \in DOMAIN repo_name_cache
     THEN /\ loc' = [ loc EXCEPT ![t].canonical = repo_name_cache[NameKey(t)] ]
          /\ pc' = [ pc EXCEPT ![t] = "readme_lock" ]
     ELSE /\ pc' = [ pc EXCEPT ![t] = "name_fetch" ]
          /\ UNCHANGED loc
  /\ UNCHANGED << inputs, mainVars, outcome, repo_name_cache, readmeVars, nreq, fetched >>

NameFetching(t, r) ==
  /\ loc' = [ loc EXCEPT ![t].canonical = r.value ]
  /\ nreq' = [ nreq EXCEPT ![t] = @ + r.nreq ]

\* the requests of canonical_github_repo_name, with no lock held
NameFetch(t) ==
  /\ pc[t] = "name_fetch"
  /\ NameFetching(t, CanonicalFetch(remote, loc[t].owner, loc[t].repo, loc[t].soup))
  /\ fetched' = [ fetched EXCEPT ![t] = @ \cup { << "name", NameKey(t) >> } ]
  /\ pc' = [ pc EXCEPT ![t] = "name_put_lock" ]
  /\ UNCHANGED << inputs, mainVars, outcome, nameVars, readmeVars >>

\* with _repo_name_lock: _repo_name_cache[key] = name; then the name is returned
NamePut(t) ==
  /\ pc[t] = "name_put"
  /\ repo_name_cache' = Put(repo_name_cache, NameKey(t), loc[t].canonical)
  /\ repo_name_lock' = 0
  /\ pc' = [ pc EXCEPT ![t] = "readme_lock" ]
  /\ UNCHANGED << inputs, mainVars, loc, outcome, readmeVars, nreq, fetched >>

\* the key of task t in _readme_cache
ReadmeKey(t) == RepoKey(loc[t].owner, loc[t].canonical)

\* _fetch_readme_text: with _readme_lock: (either of its blocks)
ReadmeAcquire(t) ==
  /\ pc[t] \in { "readme_lock", "readme_put_lock" }
  /\ readme_lock = 0
  /\ readme_lock' = t
  /\ pc' = [ pc EXCEPT ![t] = IF pc[t] = "readme_lock" THEN "readme_check"
                              ELSE "readme_put" ]
  /\ UNCHANGED << inputs, mainVars, loc, outcome, nameVars, readme_cache,
                  nreq, fetched >>

\* if key in _readme_cache: return _readme_cache[key]; the lock is released
ReadmeCheck(t) ==
  /\ pc[t] = "readme_check"
  /\ readme_lock' = 0
  /\ IF ReadmeKey(t) \in DOMAIN readme_cache
     THEN /\ loc' = [ loc EXCEPT ![t].readme = readme_cache[ReadmeKey(t)] ]
          /\ pc' = [ pc EXCEPT ![t] = "humanize" ]
     ELSE /\ pc' = [ pc EXCEPT ![t] = "readme_fetch" ]
          /\ UNCHANGED loc
  /\ UNCHANGED << inputs, mainVars, outcome, nameVars, readme_cache, nreq, fetched >>

ReadmeFetching(t, r) ==
  /\ loc' = [ loc EXCEPT ![t].readme = r.text ]
  /\ nreq' = [ nreq EXCEPT ![t] = @ + r.nreq ]

\* the requests of _fetch_readme_text, with no lock held
ReadmeRequests(t) ==
  /\ pc[t] = "readme_fetch"
  /\ ReadmeFetching(t, ReadmeFetch(remote, loc[t].owner, loc[t].canonical))
  /\ fetched' = [ fetched EXCEPT ![t] = @ \cup { << "readme", ReadmeKey(t) >> } ]
  /\ pc' = [ pc EXCEPT ![t] = "readme_put_lock" ]
  /\ UNCHANGED << inputs, mainVars, outcome, nameVars, readmeVars >>

\* with _readme_lock: _readme_cache[key] = text; then the text is returned
ReadmePut(t) ==
  /\ pc[t] = "readme_put"
  /\ readme_cache' = Put(readme_cache, ReadmeKey(t), loc[t].readme)
  /\ readme_lock' = 0
  /\ pc' = [ pc EXCEPT ![t] = "humanize" ]
  /\ UNCHANGED << inputs, mainVars, loc, outcome, nameVars, nreq, fetched >>

\* the record fetch_github or fetch_gitlab returns
FinalRecord(url, l) ==
  Record(HumanizeWith(l.readme, l.canonical) \o << " ", "#" >> \o l.number,
         url, l.created, l.title)

\* humanize_repo_display_name past the README, and the extractor's return
Humanize(t) ==
  /\ pc[t] = "humanize"
  /\ Complete(t, Returned(FinalRecord(urls[t], loc[t])))
  /\ UNCHANGED << inputs, mainVars, loc, nameVars, readmeVars, nreq, fetched >>

Next ==
  \/ ReadUrlList
  \/ Submit
  \/ \E t \in Tasks : Collect(t)
  \/ SortAndWrite
  \/ \E t \in Tasks : Start(t)
  \/ \E t \in Tasks : Fetch(t)
  \/ \E t \in Tasks : NameAcquire(t)
  \/ \E t \in Tasks : NameCheck(t)
  \/ \E t \in Tasks : NameFetch(t)
  \/ \E t \in Tasks : NamePut(t)
  \/ \E t \in Tasks : ReadmeAcquire(t)
  \/ \E t \in Tasks : ReadmeCheck(t)
  \/ \E t \in Tasks : ReadmeRequests(t)
  \/ \E t \in Tasks : ReadmePut(t)
  \/ \E t \in Tasks : Humanize(t)

(***************************************************************************)
(* Inputs and specifications                                               *)
(***************************************************************************)

MaxLines == 2
MaxWorkers == 2
MaxInputLines == 3
MaxSegments == 4
MaxToken == 5
MaxStamps == 2

\* all sequences over S of length lo .. hi
SeqsOf(S, lo, hi) == UNION { [ 1 .. n -> S ] : n \in lo .. hi }

GithubCom == << "g", "i", "t", "h", "u", "b", ".", "c", "o", "m" >>

\* "https://" + host + "/" + "/".join(segments)
UrlOf(host, segments) ==
  << "h", "t", "t", "p", "s", ":", "/", "/" >> \o host \o << "/" >>
    \o Join(segments, << "/" >>)

\* The lines of a batch: an issue of a registered repository, the same issue
\* with host, owner and repository in another letter case, an issue of a
\* registered GitLab project, an archived bug mail, and a host of no family.
GithubIssue1 ==
  UrlOf(GithubCom, << << "s", "c", "i" >>, << "h", "d", "f", "5" >>, Issues, << "1" >> >>)
GithubIssue1Caps ==
  UrlOf(<< "G", "i", "t", "H", "u", "b", ".", "c", "o", "m" >>,
        << << "S", "C", "I" >>, << "H", "D", "F", "5" >>, Issues, << "1" >> >>)
GitlabIssue7 ==
  UrlOf(<< "i", "n", "v", "e", "n", "t", ".", "k", "d", "e", ".", "o", "r", "g" >>,
        << << "k", "d", "e" >>, << "k", "c", "a", "l", "c" >>, << "-" >>, Issues, << "7" >> >>)
MailBug ==
  UrlOf(<< "w", "w", "w", ".", "m", "a", "i", "l", "-", "a", "r", "c", "h", "i", "v", "e",
           ".", "c", "o", "m" >>,
        << << "k", "b", "i", "b", "t", "e", "x" >>, << "m", "1" >> >>)
Unsupported ==
  UrlOf(<< "E", "x", "a", "m", "p", "l", "e", ".", "o", "r", "g" >>,
        << << "b", "u", "g" >>, << "1" >> >>)

\* The remote with everything up; with the GitHub API rate-limited, the pages
\* bare and no README; and with the GitHub API and the sites down and the
\* GitLab API answering with an array.
WorldUp ==
  [ api |-> "ok", web |-> "ok", gitlab |-> "ok", sites |-> "ok", readme |-> "text",
    stamps |-> << CommentAt, CreatedAt >>, phrase |-> << >> ]
WorldLimitedBare ==
  [ api |-> "limited", web |-> "bare", gitlab |-> "ok", sites |-> "ok", readme |-> "none",
    stamps |-> << CommentAt, CreatedAt >>, phrase |-> << >> ]
WorldDown ==
  [ api |-> "down", web |-> "ok", gitlab |-> "nonobject", sites |-> "down",
    readme |-> "text", stamps |-> << CommentAt, CreatedAt >>, phrase |-> << >> ]

\* the state main() starts in, whatever the inputs
InitRun ==
  /\ mpc = "start"
  /\ urls = << >>
  /\ pc = << >>
  /\ loc = << >>
  /\ outcome = << >>
  /\ results = << >>
  /\ warnings = 0
  /\ stderr = << >>
  /\ written = << >>
  /\ repo_name_cache = << >>
  /\ repo_name_lock = 0
  /\ readme_cache = << >>
  /\ readme_lock = 0
  /\ nreq = << >>
  /\ fetched = << >>

\* Batches: up to MaxLines lines of every family, failing ones among them, on a
\* pool of 1 .. MaxWorkers threads.
Init ==
  /\ file \in SeqsOf({ GithubIssue1, GithubIssue1Caps, GitlabIssue7, MailBug, Unsupported },
                     1, MaxLines)
  /\ workers \in 1 .. MaxWorkers
  /\ remote \in { WorldUp, WorldLimitedBare, WorldDown }
  /\ InitRun

Spec == Init /\ [][Next]_vars

\* Hosts of every family, of two families at once, in mixed letter case, and of
\* no family.
HostPool ==
  { GithubCom,
    << "G", "i", "t", "L", "a", "b", ".", "G", "i", "t", "H", "u", "b", ".", "c", "o", "m" >>,
    << "g", "i", "t", "l", "a", "b", ".", "c", "o", "m" >>,
    << "i", "n", "v", "e", "n", "t", ".", "k", "d", "e", ".", "o", "r", "g" >>,
    << "w", "w", "w", ".", "m", "a", "i", "l", "-", "a", "r", "c", "h", "i", "v", "e",
       ".", "c", "o", "m" >>,
    << "q", "c", "a", "d", ".", "o", "r", "g" >>,
    << "E", "x", "a", "m", "p", "l", "e", ".", "o", "r", "g" >> }

\* One URL: every host of HostPool with every path of up to MaxSegments
\* segments, each a name, "issues", the "-" placeholder or a number.
InitPath ==
  /\ \E host \in HostPool :
       \E segments \in SeqsOf({ << "k", "d", "e" >>, Issues, << "-" >>, << "1" >> },
                              0, MaxSegments) :
         file = << UrlOf(host, segments) >>
  /\ workers = 1
  /\ remote = WorldUp
  /\ InitRun

SpecPath == InitPath /\ [][Next]_vars

\* Input files of up to MaxInputLines lines: URLs, a URL between blanks, a URL
\* in another letter case, a comment and an empty line.
InitInput ==
  /\ file \in SeqsOf({ GithubIssue1, << " " >> \o GithubIssue1 \o << " " >>,
                       GithubIssue1Caps, Unsupported, << "#" >> \o Unsupported, << >> },
                     1, MaxInputLines)
  /\ workers = 1
  /\ remote = WorldUp
  /\ InitRun

SpecInput == InitInput /\ [][Next]_vars

\* One issue of a repository whose name is any string of up to MaxToken
\* characters over a lower-case letter, an upper-case letter, a digit, the
\* hyphen and the dot; no page names the repository and it has no README, so
\* the display name is built from the name in the URL.
InitHumanize ==
  /\ \E name \in SeqsOf({ "a", "B", "1", "-", "." }, 1, MaxToken) :
       file = << UrlOf(GithubCom, << << "s", "c", "i" >>, name, Issues, << "1" >> >>) >>
  /\ workers = 1
  /\ remote = WorldLimitedBare
  /\ InitRun

SpecHumanize == InitHumanize /\ [][Next]_vars

\* Runs for the page fallback of fetch_github: one issue URL of a registered
\* repository, the API rate-limited, and an issue page whose datetime
\* attributes and date phrase are drawn from small sets: two timestamps, a
\* year ("2021") and a duration ("PT2H"), which are datetime values that
\* try_parse_date does not parse.
InitDates ==
  /\ file = << GithubIssue1 >>
  /\ workers = 1
  /\ \E st \in SeqsOf({ CreatedAt, CommentAt, << "2", "0", "2", "1" >>,
                         << "P", "T", "2", "H" >> }, 0, MaxStamps),
        ph \in { << >>, SiteDate } :
       remote = [ api |-> "limited", web |-> "ok", gitlab |-> "ok", sites |-> "ok",
                  readme |-> "text", stamps |-> st, phrase |-> ph ]
  /\ InitRun

SpecDates == InitDates /\ [][Next]_vars

(***************************************************************************)
(* Properties                                                              *)
(***************************************************************************)

Collected == { t \in Tasks : pc[t] = "collected" }
Succeeded == { t \in Tasks : outcome[t].st = "returned" }
Failing == { t \in Tasks : outcome[t].st = "raised" }

\* C1: every listed URL ends in exactly one outcome, a record or a warning.
\* While the futures are collected, records plus warnings count the futures
\* collected; when main() is done every URL has been collected, records
\* plus warnings equal the number of URLs, the records are those of the
\* URLs that succeeded, the warnings those of the URLs that failed, and the
\* written document has one entry per record.
C1_OneOutcomePerUrl ==
  /\ Len(results) + warnings = Cardinality(Collected)
  /\ Len(stderr) = warnings
  /\ mpc = "done" =>
       /\ Tasks = DOMAIN urls
       /\ Collected = Tasks
       /\ Succeeded \cup Failing = Tasks
       /\ Len(results) + warnings = Len(urls)
       /\ Len(results) = Cardinality(Succeeded)
       /\ warnings = Cardinality(Failing)
       /\ Len(written) = 1
       /\ Len(written[1]) = Len(results)

\* a run on two threads is done with a record and a warning
C1_Witness ==
  /\ mpc = "done"
  /\ workers = 2
  /\ Len(results) >= 1
  /\ warnings >= 1

\* rs is in the order of the case-insensitive comparison of id
IsSortedById(rs) ==
  \A i, j \in DOMAIN rs :
    i < j => ~ StrLess(StrLower(rs[j].id), StrLower(rs[i].id))

\* C2: the written collection is sorted by case-insensitive id whatever the
\* order of completion; nothing is written before every future has been
\* collected; and sorting the written collection again leaves it unchanged.
C2_SortedOutput ==
  /\ mpc /= "done" => written = << >>
  /\ written /= << >> =>
       /\ Collected = Tasks
       /\ IsSortedById(written[1])
       /\ SortById(written[1]) = written[1]

\* two records were written in the reverse of the order their URLs were listed in
C2_Witness ==
  /\ written /= << >>
  /\ Len(written[1]) = 2
  /\ Len(urls) = 2
  /\ written[1][1].url = urls[2]
  /\ written[1][2].url = urls[1]
  /\ StrLess(StrLower(written[1][1].id), StrLower(written[1][2].id))

\* when main() is done after a URL failed, every future has been collected and
\* the written collection is sorted and holds the records of exactly the
\* URLs that succeeded
FailureLeavesTheRest ==
  (Failing /= {} /\ mpc = "done") =>
    /\ Collected = Tasks
    /\ Len(written) = 1
    /\ IsSortedById(written[1])
    /\ { written[1][i].url : i \in DOMAIN written[1] } = { urls[t] : t \in Succeeded }

\* collecting the future of a URL that failed costs one warning and nothing
\* else: main() stays in its loop over the futures, the records collected so
\* far stay, and no other task is touched
FailureIsCollected ==
  \A t \in Tasks :
    (outcome[t].st = "raised" /\ pc[t] = "done" /\ pc'[t] = "collected") =>
      /\ mpc' = "collect"
      /\ results' = results
      /\ warnings' = warnings + 1
      /\ \A u \in Tasks \ { t } : pc'[u] = pc[u] /\ outcome'[u] = outcome[u]

\* C3: a failing URL does not abort the batch.  Its failure is caught where
\* its future is collected and becomes one warning; the loop over the futures
\* goes on, and at the end the written collection is sorted and holds the
\* records of exactly the URLs that succeeded.
C3_FailureDoesNotAbort == [] FailureLeavesTheRest /\ [][FailureIsCollected]_vars

\* the batch is done, and a URL listed behind one that failed has its record written
C3_Witness ==
  /\ mpc = "done"
  /\ \E t1, t2 \in Tasks :
       /\ t1 < t2
       /\ t1 \in Failing
       /\ \E i \in DOMAIN written[1] : written[1][i].url = urls[t2]

\* The run that takes the URLs one after the other in list order, each to its
\* end before the next: acc holds its records and the two caches so far.
SeqAcc(rs, names, readmes) == [ results |-> rs, names |-> names, readmes |-> readmes ]

\* humanize_repo_display_name and the return of the record
SeqReturn(acc, url, l, key, readme) ==
  SeqAcc(Append(acc.results, FinalRecord(url, [ l EXCEPT !.readme = readme ])),
         acc.names, Put(acc.readmes, key, readme))

\* _fetch_readme_text
SeqReadme(acc, url, l, key) ==
  SeqReturn(acc, url, l, key,
            IF key \in DOMAIN acc.readmes THEN acc.readmes[key]
            ELSE ReadmeFetch(remote, l.owner, l.canonical).text)

\* canonical_github_repo_name (fetch_github only)
SeqName(acc, url, l, key, name) ==
  SeqReadme([ acc EXCEPT !.names = Put(acc.names, key, name) ], url,
            [ l EXCEPT !.canonical = name ], RepoKey(l.owner, name))

\* the extractor past its own requests, which came to r
SeqFetched(acc, url, l, r) ==
  IF r.exc /= NoExc THEN acc
  ELSE IF l.fam \in { "mail", "qcad" }
  THEN [ acc EXCEPT !.results = Append(@, Record(r.id, url, r.created, r.title)) ]
  ELSE IF l.fam = "gitlab"
  THEN SeqReadme(acc, url, [ l EXCEPT !.title = r.title, !.created = r.created,
                                      !.canonical = r.name ],
                 RepoKey(l.owner, r.name))
  ELSE SeqName(acc, url, [ l EXCEPT !.title = r.title, !.created = r.created ],
               RepoKey(l.owner, l.repo),
               IF RepoKey(l.owner, l.repo) \in DOMAIN acc.names
               THEN acc.names[RepoKey(l.owner, l.repo)]
               ELSE CanonicalFetch(remote, l.owner, l.repo, r.soup).value)

\* process_link on one URL
SeqLink(acc, url, d) ==
  IF d.exc /= NoExc THEN acc ELSE SeqFetched(acc, url, d.loc, Extract(remote, url, d.loc))

RECURSIVE SeqRun(_, _)
SeqRun(acc, us) ==
  IF us = << >> THEN acc
  ELSE SeqRun(SeqLink(acc, us[1], Dispatch(us[1])), Tail(us))

\* what the one-after-the-other run writes
SequentialOutput == SortById(SeqRun(SeqAcc(<< >>, << >>, << >>), urls).results)

\* C4: for a fixed URL list and a fixed remote the written collection is the
\* same for every interleaving of the workers: whatever the schedule, it is
\* the collection written by the run that takes the URLs one after the other.
C4_SameOutputForEveryInterleaving ==
  written /= << >> => written[1] = SequentialOutput

\* C5: every warning names the URL that failed and the cause: the line printed
\* for a failed URL contains that URL, and a cause behind "[WARN] ".
C5_WarningNamesUrl ==
  \A i \in DOMAIN stderr :
    /\ Contains(stderr[i].text, urls[stderr[i].task])
    /\ Len(stderr[i].text) > Len(WarnLine(NoExc))

\* the project segments in front of the first "issues", "-" placeholders removed
ProjectSegments(seg) ==
  SelectSeq(SubSeq(seg, 1, FirstIn(seg, { Issues }) - 1), LAMBDA p : p /= << "-" >>)

\* a path that has not the shape its extractor requires
MalformedShape(fam, seg) ==
  \/ fam = "github" /\ (Len(seg) < 4 \/ seg[3] /= Issues)
  \/ fam = "gitlab" /\ (Issues \notin Range(seg) \/ Len(ProjectSegments(seg)) < 2)

\* C6: a URL whose path has not the shape its extractor requires fails as a
\* malformed URL (the ValueError of the shape test) before any HTTP request
\* is issued for it, and ends as one warning and no record.
C6_MalformedBeforeRequest ==
  \A t \in Tasks :
    (pc[t] /= "queued" /\ MalformedShape(loc[t].fam, loc[t].seg)) =>
      /\ outcome[t].st = "raised"
      /\ outcome[t].exc.type = "ValueError"
      /\ nreq[t] = 0
      /\ mpc = "done" => (warnings = 1 /\ written = << << >> >>)

\* needle occurs in the lower-cased host of the URL
HostHas(url, needle) == Contains(StrLower(Netloc(url)), needle)

ListedLines ==
  SelectSeq([ i \in DOMAIN file |-> Strip(file[i], { " " }) ],
            LAMBDA ln : ln /= << >> /\ ln[1] /= "#")

\* where a line first stands among the listed lines
FirstAt(u) ==
  CHOOSE i \in DOMAIN ListedLines :
    ListedLines[i] = u /\ \A k \in 1 .. (i - 1) : ListedLines[k] /= u

\* C8: the URL list holds each distinct listed line (stripped, not blank, not
\* starting with "#") exactly once, in the order of first occurrence, lines
\* being the same only when they are the same string; one task is submitted
\* per listed URL and no two records are of the same URL.
C8_DedupFirstOccurrence ==
  mpc /= "start" =>
    /\ Range(urls) = Range(ListedLines)
    /\ \A i, j \in DOMAIN urls :
         i < j => (urls[i] /= urls[j] /\ FirstAt(urls[i]) < FirstAt(urls[j]))
    /\ mpc \in { "collect", "done" } => Tasks = DOMAIN urls
    /\ \A i, j \in DOMAIN results : i /= j => results[i].url /= results[j].url
    /\ Len(results) + warnings <= Len(urls)

\* a file that lists a URL twice, with another URL in between, was processed
\* to the end: the list has two URLs
C8_Witness ==
  /\ mpc = "done"
  /\ Len(ListedLines) = 3
  /\ ListedLines[1] = ListedLines[3]
  /\ ListedLines[1] /= ListedLines[2]
  /\ Len(urls) = 2
  /\ Len(results) >= 1

\* the token is letters (at most 4) followed by digits, in any letter case
LettersThenDigits(ct, k) ==
  /\ k >= 1 /\ k <= 4 /\ k < Len(ct)
  /\ \A i \in 1 .. k : IsAlphaChar(ct[i])
  /\ \A i \in (k + 1) .. Len(ct) : IsDigitChar(ct[i])

\* the rendering of a token of letters and digits by the structural fallback
\* as C9 states it
FallbackOf(ct) ==
  IF \E k \in 1 .. 4 : LettersThenDigits(ct, k)
  THEN StrUpper(ct)
  ELSE IF \E i \in DOMAIN ct : IsDigitChar(ct[i])
  THEN CapitalizeAlphaParts(DigitRuns(ct))
  ELSE IF Len(ct) <= 4 /\ ct = StrUpper(ct) THEN ct
  ELSE UpperFirst(ct)

\* the display name in front of " #<number>" in an id
DisplayOf(id) == Before(id, { " " })

\* C9: with no README evidence every token of the name is rendered by the
\* structural fallback, letters (at most 4) followed by digits becoming the
\* upper-cased letters and the digits in whatever letter case the token came,
\* and no token of the result that holds a letter is all lower-case.
C9_StructuralFallback ==
  \A t \in Tasks :
    (outcome[t].st = "returned" /\ loc[t].readme = << >>) =>
      /\ (\A i \in DOMAIN loc[t].canonical :
            IsAlphaChar(loc[t].canonical[i]) \/ IsDigitChar(loc[t].canonical[i])
            \/ loc[t].canonical[i] \in { "-", "_" })
         => DisplayOf(outcome[t].rec.id)
              = Join([ i \in DOMAIN RepoTokens(loc[t].canonical) |->
                         FallbackOf(RepoTokens(loc[t].canonical)[i]) ], << "-" >>)
      /\ \A part \in Range(SplitOn(DisplayOf(outcome[t].rec.id), { "-" })) :
           ~ StrIsLower(part)

\* C10 as stated: of the workers that ask for the same key of a cache, at most
\* one runs the remote fetch for it.
C10_AtMostOneFetchPerKey ==
  \A t1, t2 \in Tasks : t1 /= t2 => fetched[t1] \cap fetched[t2] = {}

\* the task that holds each lock is in one of the two blocks the lock guards,
\* and no other task is
LocksGuardCaches ==
  /\ \A t \in Tasks : pc[t] \in { "name_check", "name_put" } <=> repo_name_lock = t
  /\ \A t \in Tasks : pc[t] \in { "readme_check", "readme_put" } <=> readme_lock = t
  /\ repo_name_lock \in Tasks \cup { 0 }
  /\ readme_lock \in Tasks \cup { 0 }

\* a step of the cache protocol: a cache changes only in the insert block of the
\* task holding its lock; a remote fetch is run by a task that holds no lock;
\* a check that finds the key in the cache returns the cached value without
\* a fetch
CacheStep ==
  /\ repo_name_cache' /= repo_name_cache =>
       \E t \in Tasks : repo_name_lock = t /\ pc[t] = "name_put"
  /\ readme_cache' /= readme_cache =>
       \E t \in Tasks : readme_lock = t /\ pc[t] = "readme_put"
  /\ \A t \in Tasks :
       /\ fetched'[t] /= fetched[t] => (repo_name_lock /= t /\ readme_lock /= t)
       /\ (pc[t] = "name_check" /\ pc'[t] /= "name_check"
             /\ NameKey(t) \in DOMAIN repo_name_cache)
          => /\ loc'[t].canonical = repo_name_cache[NameKey(t)]
             /\ pc'[t] = "readme_lock"
             /\ fetched'[t] = fetched[t]
       /\ (pc[t] = "readme_check" /\ pc'[t] /= "readme_check"
             /\ ReadmeKey(t) \in DOMAIN readme_cache)
          => /\ loc'[t].readme = readme_cache[ReadmeKey(t)]
             /\ pc'[t] = "humanize"
             /\ fetched'[t] = fetched[t]
       /\ (pc[t] = "name_check" /\ pc'[t] = "name_fetch")
          => NameKey(t) \notin DOMAIN repo_name_cache
       /\ (pc[t] = "readme_check" /\ pc'[t] = "readme_fetch")
          => ReadmeKey(t) \notin DOMAIN readme_cache

\* C10, amended: the check and the insert each run under the cache's lock, but
\* in two lock scopes with the remote fetch between them and outside the
\* lock.  The lock is held exactly in those blocks, by one task at a time;
\* a cache is written only under its lock; a task fetches only after its
\* check found the key absent, and holds no lock while it fetches; a task
\* whose check finds the key present takes the cached value and does not fetch.
C10_SeparateLockScopes == [] LocksGuardCaches /\ [][CacheStep]_vars

\* two tasks with the same repository key: one has fetched and inserted the
\* name, the other has read it from the cache without a fetch
C10_Witness ==
  \E t1, t2 \in Tasks :
    /\ t1 /= t2
    /\ loc[t1].fam = "github" /\ loc[t2].fam = "github"
    /\ NameKey(t1) = NameKey(t2)
    /\ << "name", NameKey(t1) >> \in fetched[t1]
    /\ fetched[t2] = {}
    /\ pc[t2] = "done"
    /\ outcome[t2].st = "returned"

\* a step leaves the value of every populated key of both caches as it is
CacheValuesKept ==
  /\ \A k \in DOMAIN repo_name_cache :
       k \in DOMAIN repo_name_cache' /\ repo_name_cache'[k] = repo_name_cache[k]
  /\ \A k \in DOMAIN readme_cache :
       k \in DOMAIN readme_cache' /\ readme_cache'[k] = readme_cache[k]

\* the code-host tasks that have their canonical name
Named ==
  { t \in Tasks :
      /\ loc[t].fam = "github"
      /\ \/ pc[t] \in { "readme_lock", "readme_check", "readme_fetch",
                        "readme_put_lock", "readme_put", "humanize" }
         \/ outcome[t].st = "returned" }

\* every task that has its canonical name holds the value the cache holds for
\* its key
NamesAgreeWithCache ==
  \A t \in Named :
    /\ NameKey(t) \in DOMAIN repo_name_cache
    /\ loc[t].canonical = repo_name_cache[NameKey(t)]

\* C11: populating a key again is idempotent.  Every write to a populated key
\* of the README cache or of the name cache stores the value the key already
\* has, and every worker that has the name of an owner/repo has the value the
\* cache holds for it, whatever the interleaving and the letter case of the
\* URLs.
C11_PopulationIsIdempotent == [][CacheValuesKept]_vars /\ [] NamesAgreeWithCache

\* the issue page fetch_github got for task t
IssuePageOf(t) ==
  WebIssuePage(remote, loc[t].seg, loc[t].owner,
               RegisteredName(loc[t].owner, loc[t].repo), loc[t].number)

\* the page candidates the Date Normalizer normalizes, each as its ISO date
Normalized(page) ==
  NonEmpty([ i \in DOMAIN page.datetimes |-> try_parse_date(page.datetimes[i]) ])
  \o NonEmpty([ i \in DOMAIN page.markup |-> try_parse_date(page.markup[i]) ])
  \o NonEmpty(<< try_parse_date(page.textdate) >>)

\* the code-host tasks that returned a record made from the rendered issue
\* page, the page having resolved to an issue path
FromPage ==
  { t \in Tasks :
      /\ loc[t].fam = "github"
      /\ outcome[t].st = "returned"
      /\ loc[t].soup.parsed
      /\ ValidIssuePath(IssuePageOf(t).final) }

\* C12: a record made from the rendered issue page has as its date the minimum
\* of the page candidates (datetime attributes, raw timestamps of the markup,
\* the date phrase of the visible text) that normalize to an ISO date; a
\* candidate that does not normalize is never the date and does not change
\* it, and only when none normalizes is the date the one recovered from the
\* free text.
C12_DateIsMinOfNormalized ==
  \A t \in FromPage :
    outcome[t].rec.date =
      IF Normalized(IssuePageOf(t)) /= << >>
      THEN StrMin(Normalized(IssuePageOf(t)))
      ELSE IssuePageOf(t).textdate

=============================================================================
